---- MODULE Spec2Model ----
(***************************************************************************)
(* Passive monitoring and thread-watch lifecycle of the Slack bot:         *)
(*   PassiveMessageHandler  (src/passive_monitoring.py)                    *)
(*   ThreadLinkStorage      (src/thread_link_storage.py)                   *)
(*   SlackBot background loop (src/slack_bot.py)                           *)
(*   SessionManager         (src/session_manager.py)                       *)
(*   AgentEngineClient, SessionStorage (src/agent_engine_client.py)        *)
(*   deduplicate_event, SlackEventDeduplicator (src/deduplication.py)      *)
(*                                                                         *)
(* Time is an integer clock; one unit stands for a fixed number of         *)
(* minutes, and the configured timeout is NoResponseTimeout units.         *)
(***************************************************************************)
EXTENDS Integers, Sequences, FiniteSets, TLC

VARIABLES
    now,               \* the wall clock read by datetime.now()
    watched_threads,   \* PassiveMessageHandler.watched_threads: thread_key -> thread_data
    review_pc,         \* position of review_watched_threads: "idle" | "gather"
    review_now,        \* local `now` of the running review_watched_threads
    threads_to_keep,   \* local `threads_to_keep` of the running review_watched_threads
    tasks,             \* the _process_single_thread coroutines under asyncio.gather: thread_key -> frame
    platform_replies,  \* chat platform: the threads, as <<channel, thread_ts>>, that hold a reply of a person
    posted,            \* chat platform: the messages the bot posted, each with the ts the platform gave it
    link_file,         \* content of the thread_links.json file: notification_ts -> link
    registry_at_sweep, \* history: watched_threads as the running sweep found it
    last_sweep_now,    \* history: clock reading of the latest sweep, -1 before the first
    prev_sweep_now,    \* history: last_sweep_now as the running sweep found it
    added_since_sweep, \* history: a watch was added since the latest sweep
    quiet_sweep,       \* history: the running sweep followed another one with no watch added in between
    reply_hist,        \* history: thread_key -> "ignored" | "resolved" | "spared"
    review_raised,     \* an exception left review_watched_threads
    writer_pc,         \* link-store writers: writer -> position inside create_link
    writer_arg,        \* link-store writers: the arguments of the running create_link
    writer_links,      \* link-store writers: local `links` of the running create_link
    writer_lock,       \* link-store writers: the threading.Lock of the writer's ThreadLinkStorage
    lock_held,         \* threading.Lock objects: lock -> holder or None
    finished,          \* history: the create_link calls that returned, as <<writer, notification_ts>>
    file_exists,       \* os.path.exists of the thread_links.json file
    last_call,         \* history: the latest observed call, its arguments, the state it found, its result
    sessions,          \* SessionManager.sessions: <<channel, thread_ts>> -> session id
    last_used,         \* SessionManager.last_used: <<channel, thread_ts>> -> clock reading
    cleanup_pc,        \* position of SlackBot.cleanup_sessions: "sleep" | "cancelled"
    stop_called,       \* SlackBot.stop has cancelled the background tasks
    session_file,      \* SessionStorage: the list of session records in sessions.json
    engine_count,      \* the sessions the reasoning engine has created so far
    query,             \* caller -> frame of its AgentEngineClient.get_or_create_session call
    returned,          \* history: <<channel_id, user_id, session id>> of the calls that returned
    dedup_cache,       \* SlackEventDeduplicator._cache: the keys, least recently set first
    delivery,          \* delivery -> frame of its deduplicate_event wrapper call
    admitted           \* history: key of the cache -> handler runs let through since it was set

monitor_vars == <<now, watched_threads, review_pc, review_now, threads_to_keep, tasks,
                  platform_replies, posted, registry_at_sweep, last_sweep_now,
                  prev_sweep_now, added_since_sweep, quiet_sweep, reply_hist, review_raised>>
store_vars == <<writer_pc, writer_arg, writer_links, writer_lock, lock_held, finished>>
probe_vars == <<file_exists, last_call>>
session_vars == <<sessions, last_used>>
loop_vars == <<cleanup_pc, stop_called>>
engine_vars == <<session_file, engine_count, query, returned>>
dedup_vars == <<dedup_cache, delivery, admitted>>
vars == <<monitor_vars, link_file, store_vars, probe_vars, session_vars, loop_vars,
          engine_vars, dedup_vars>>

-----------------------------------------------------------------------------
(* Bounds of the model *)

\* The clock stops here.
MaxTime == 2
\* The chat platform accepts this many bot posts, then answers with an error.
MaxPosts == 2

-----------------------------------------------------------------------------
(* Python values *)

\* Python's None, also the value of dict.get for an absent key.
None == "None"

\* History: no call observed yet.
NoCall == [op |-> "none"]

\* Truth value of an optional string: None and "" are falsy.
Truthy(v) == v # None /\ v # ""

\* `sub in s` for two strings.
Contains(sub, s) ==
    \E i \in 1..(Len(s) - Len(sub) + 1) : SubSeq(s, i, i + Len(sub) - 1) = sub

UpperChars == "ABCDEFGHIJKLMNOPQRSTUVWXYZ"
LowerChars == "abcdefghijklmnopqrstuvwxyz"

LowerChar(c) ==
    IF \E i \in 1..Len(UpperChars) : SubSeq(UpperChars, i, i) = c
    THEN LET i == CHOOSE j \in 1..Len(UpperChars) : SubSeq(UpperChars, j, j) = c
         IN  SubSeq(LowerChars, i, i)
    ELSE c

\* str.lower()
RECURSIVE Lower(_)
Lower(s) ==
    IF Len(s) = 0 THEN "" ELSE LowerChar(SubSeq(s, 1, 1)) \o Lower(SubSeq(s, 2, Len(s)))

\* The empty dict.
EmptyDict == <<>>

\* dict with key k removed.
DictDel(d, k) == [x \in DOMAIN d \ {k} |-> d[x]]

\* dict with d[k] = v assigned.
DictSet(d, k, v) == (k :> v) @@ d

\* The coroutines that call AgentEngineClient.get_or_create_session, and the frame of
\* one that is not inside a call.
Callers == {"q1", "q2"}

IdleQuery == [pc |-> "idle"]

\* The deliveries of events to the decorated handler, and the frame of one that is
\* not inside the wrapper.
Deliveries == {"d1", "d2"}

IdleDelivery == [pc |-> "idle", outcome |-> "none"]

-----------------------------------------------------------------------------
(* Configuration *)

\* PassiveMonitoringConfig.no_response_timeout_minutes, in clock units.
NoResponseTimeout == 1

\* PassiveMonitoringConfig.channel_mappings
ChannelMappings ==
    { [monitored_channel_id |-> "C1", notification_channel_id |-> "N1"],
      [monitored_channel_id |-> "C2", notification_channel_id |-> "N2"] }

\* PassiveMessageHandler.monitored_channels, built in __init__
monitored_channels ==
    [c \in {m.monitored_channel_id : m \in ChannelMappings} |->
        (CHOOSE m \in ChannelMappings : m.monitored_channel_id = c).notification_channel_id]

-----------------------------------------------------------------------------
(* Inbound events *)

Event(channel, ts, thread_ts, user, text, bot_id) ==
    [channel |-> channel, ts |-> ts, thread_ts |-> thread_ts,
     user |-> user, text |-> text, bot_id |-> bot_id]

\* Top-level messages in the monitored channels: message T1 of channel C1, written
\* by U1, and message T1 of channel C2, written by U2. An event can be delivered again.
TopLevelEvents ==
    { Event("C1", "T1", None, "U1", "how?", None),
      Event("C2", "T1", None, "U2", "how?", None) }

\* Replies in the threads of those messages: plain, with a mention, from a bot,
\* and one without a user.
ReplyEvents ==
    { Event(c, "R1", "T1", u, "try x", None) : c \in {"C1", "C2"}, u \in {"U1", "U2"} }
    \cup { Event("C1", "R1", "T1", "U2", "<@U1> try x", None),
           Event("C1", "R1", "T1", "U1", "<@U2> any idea?", None),
           Event("C1", "R1", "T1", "U2", "try x", "B1"),
           Event("C1", "R1", "T1", None, "try x", None) }

\* Events that are not candidates: another channel, a mention, a bot, missing fields.
OtherEvents ==
    { Event("C9", "T1", None, "U1", "how?", None),
      Event("C9", "R1", "T1", "U2", "try x", None),
      Event("C1", "T1", None, "U1", "<@B1> how?", None),
      Event("C1", "T1", None, "U1", "how?", "B1"),
      Event("C1", "T1", None, "U1", None, None),
      Event("C1", "T1", None, None, "how?", None),
      Event("C1", None, None, "U1", "how?", None),
      Event(None, "T1", None, "U1", "how?", None) }

Events == TopLevelEvents \cup ReplyEvents \cup OtherEvents

-----------------------------------------------------------------------------
(* PassiveMessageHandler.handle_message *)

\* f"{channel_id}-{ts}"
ThreadKeyTsOnly(channel_id, ts) == ts

ThreadKey(channel_id, ts) == channel_id \o "-" \o ts

\* event.get("text", "")
TextOrEmpty(event) == IF event.text = None THEN "" ELSE event.text

\* The two early returns at the top of handle_message.
RejectedChannelUnchecked(event) ==
    \/ Truthy(event.bot_id)
    \/ Contains("<@", TextOrEmpty(event))

RejectedBotsOnly(event) ==
    \/ event.channel \notin DOMAIN monitored_channels
    \/ Truthy(event.bot_id)

Rejected(event) ==
    \/ event.channel \notin DOMAIN monitored_channels
    \/ Truthy(event.bot_id)
    \/ Contains("<@", TextOrEmpty(event))

IsReply(event) == Truthy(event.thread_ts)

\* The reply branch removes the watch of the thread.
ReplyResolvesInverted(reg, event) ==
    LET thread_key == ThreadKey(event.channel, event.thread_ts) IN
    /\ thread_key \in DOMAIN reg
    /\ event.user = reg[thread_key].user_id

ReplyResolvesAnyUser(reg, event) ==
    ThreadKey(event.channel, event.thread_ts) \in DOMAIN reg

ReplyResolves(reg, event) ==
    LET thread_key == ThreadKey(event.channel, event.thread_ts) IN
    /\ thread_key \in DOMAIN reg
    /\ event.user # reg[thread_key].user_id

\* all([channel_id, message_ts, user_id, text])
CompleteWithoutText(event) ==
    /\ Truthy(event.channel)
    /\ Truthy(event.ts)
    /\ Truthy(event.user)

Complete(event) ==
    /\ Truthy(event.channel)
    /\ Truthy(event.ts)
    /\ Truthy(event.user)
    /\ Truthy(event.text)

ThreadData(event, t) ==
    [channel_id |-> event.channel, thread_ts |-> event.ts,
     user_id |-> event.user, text |-> event.text, timestamp |-> t]

\* watched_threads after handle_message(event) at clock reading t.
HandledRegistryNoReturn(reg, event, t) ==
    IF Rejected(event) THEN reg
    ELSE LET after_reply ==
                 IF IsReply(event) /\ ReplyResolves(reg, event)
                 THEN DictDel(reg, ThreadKey(event.channel, event.thread_ts))
                 ELSE reg
         IN  IF ~Complete(event) THEN after_reply
             ELSE DictSet(after_reply, ThreadKey(event.channel, event.ts), ThreadData(event, t))

HandledRegistryKeepFirst(reg, event, t) ==
    IF Rejected(event) THEN reg
    ELSE IF IsReply(event) THEN
        IF ReplyResolves(reg, event)
        THEN DictDel(reg, ThreadKey(event.channel, event.thread_ts))
        ELSE reg
    ELSE IF ~Complete(event) THEN reg
    ELSE IF ThreadKey(event.channel, event.ts) \in DOMAIN reg THEN reg
    ELSE DictSet(reg, ThreadKey(event.channel, event.ts), ThreadData(event, t))

HandledRegistry(reg, event, t) ==
    IF Rejected(event) THEN reg
    ELSE IF IsReply(event) THEN
        IF ReplyResolves(reg, event)
        THEN DictDel(reg, ThreadKey(event.channel, event.thread_ts))
        ELSE reg
    ELSE IF ~Complete(event) THEN reg
    ELSE DictSet(reg, ThreadKey(event.channel, event.ts), ThreadData(event, t))

\* handle_message adds a watch for this event.
AddsWatch(event) == ~Rejected(event) /\ ~IsReply(event) /\ Complete(event)

\* History: a reply event of a user other than the author of the watch of its thread.
NonAuthorReply(reg, event) ==
    /\ IsReply(event)
    /\ Truthy(event.channel)
    /\ ThreadKey(event.channel, event.thread_ts) \in DOMAIN reg
    /\ event.user # reg[ThreadKey(event.channel, event.thread_ts)].user_id

\* History: such a reply that carries no mention and comes from no automated sender.
QualifyingReply(reg, event) ==
    /\ NonAuthorReply(reg, event)
    /\ ~Truthy(event.bot_id)
    /\ ~Contains("<@", TextOrEmpty(event))

HistGet(h, k) == IF k \in DOMAIN h THEN h[k] ELSE "none"

\* History of the replies to the watch of a key: "ignored" while the watch has seen a
\* reply of another user that carried a mention or came from an automated sender,
\* "resolved" once a reply of another user without either was handled, "spared" once
\* a sweep has run after that; a new watch for the key ends the history.
ReplyHistAfter(h, reg, event) ==
    IF NonAuthorReply(reg, event) THEN
        DictSet(h, ThreadKey(event.channel, event.thread_ts),
                IF QualifyingReply(reg, event) THEN "resolved" ELSE "ignored")
    ELSE IF AddsWatch(event) /\ ThreadKey(event.channel, event.ts) \in DOMAIN h
    THEN DictDel(h, ThreadKey(event.channel, event.ts))
    ELSE h

\* What handle_message(event) does to the state of the handler.
HandleMessageEffect(event) ==
    /\ watched_threads' = HandledRegistry(watched_threads, event, now)
    /\ added_since_sweep' = (added_since_sweep \/ AddsWatch(event))
    /\ reply_hist' = ReplyHistAfter(reply_hist, watched_threads, event)
    /\ UNCHANGED <<now, review_pc, review_now, threads_to_keep, tasks, platform_replies,
                   posted, registry_at_sweep, last_sweep_now, prev_sweep_now,
                   quiet_sweep, review_raised, link_file, store_vars>>

HandleMessage(event) ==
    HandleMessageEffect(event) /\ UNCHANGED <<probe_vars, session_vars, loop_vars, engine_vars, dedup_vars>>

\* Time passes.
Tick ==
    /\ now < MaxTime
    /\ now' = now + 1
    /\ UNCHANGED <<watched_threads, review_pc, review_now, threads_to_keep, tasks,
                   platform_replies, posted, registry_at_sweep, last_sweep_now,
                   prev_sweep_now, added_since_sweep, quiet_sweep, reply_hist,
                   review_raised, link_file, store_vars, probe_vars,
                   session_vars, loop_vars, engine_vars, dedup_vars>>

-----------------------------------------------------------------------------
(* Chat platform (AsyncWebClient) *)

ThreadIds == { <<"C1", "T1">>, <<"C2", "T1">> }

\* The threads people reply in.
RepliedThreadIds == { <<"C1", "T1">> }

\* limit=1 of the conversations_replies call
ReplyLimit == 1

\* ts of a message the platform has not given: no message.
NoTs == 0

Min(a, b) == IF a < b THEN a ELSE b

\* len(replies["messages"]) of conversations_replies(channel, ts, limit): the thread's
\* parent message followed by its replies (the first one, when it has any), at most
\* `limit` items.
ConversationsReplies(replies, channel, ts, limit) ==
    Min(limit, 1 + (IF <<channel, ts>> \in replies THEN 1 ELSE 0))

\* The ts the platform gives the next posted message.
NewTs(msgs) == Cardinality(msgs) + 1

\* chat_postMessage(channel, thread_ts, text)
Message(channel, thread_ts, ts) == [channel |-> channel, thread_ts |-> thread_ts, ts |-> ts]

\* A person replies in a thread on the platform.
HumanReply(id) ==
    /\ id \notin platform_replies
    /\ platform_replies' = platform_replies \cup {id}
    /\ UNCHANGED <<now, watched_threads, review_pc, review_now, threads_to_keep, tasks,
                   posted, registry_at_sweep, last_sweep_now, prev_sweep_now,
                   added_since_sweep, quiet_sweep, reply_hist, review_raised,
                   link_file, store_vars, probe_vars,
                   session_vars, loop_vars, engine_vars, dedup_vars>>

-----------------------------------------------------------------------------
(* ThreadLinkStorage *)

Link(original_channel_id, original_thread_ts) ==
    [original_channel_id |-> original_channel_id, original_thread_ts |-> original_thread_ts]

\* _load_links: json.load of the file; a file truncated by a writer holds no JSON
\* and loads as {}. A truncated file is modelled as the empty content.
LoadLinks(file) == file

\* links[notification_ts] = {...} of create_link
LinksWith(links, notification_ts, original_channel_id, original_thread_ts) ==
    DictSet(links, notification_ts, Link(original_channel_id, original_thread_ts))

\* create_link run without interleaving: the file afterwards.
CreateLink(file, notification_ts, original_channel_id, original_thread_ts) ==
    LinksWith(LoadLinks(file), notification_ts, original_channel_id, original_thread_ts)

\* _ensure_file_exists: the file after the constructor, from whether it existed and
\* what it held.
EnsureFileAlwaysWritten(exists, file) == EmptyDict

EnsureFileExists(exists, file) == IF ~exists THEN EmptyDict ELSE file

\* get_link: links.get(notification_ts)
GetLinkSubscript(file, notification_ts) ==
    IF notification_ts \in DOMAIN LoadLinks(file)
    THEN LoadLinks(file)[notification_ts] ELSE "KeyError"

GetLink(file, notification_ts) ==
    IF notification_ts \in DOMAIN LoadLinks(file) THEN LoadLinks(file)[notification_ts] ELSE None

-----------------------------------------------------------------------------
(* PassiveMessageHandler.review_watched_threads: the sweep *)

\* now - thread_data["timestamp"] > timeout
IsExpiredInclusive(thread_data, t) == t - thread_data.timestamp >= NoResponseTimeout

IsExpired(thread_data, t) == t - thread_data.timestamp > NoResponseTimeout

\* The keys of expired_threads.
ExpiredKeys(reg, t) == { k \in DOMAIN reg : IsExpired(reg[k], t) }

\* threads_to_keep after the loop.
ThreadsToKeepAll(reg, t) == reg

ThreadsToKeep(reg, t) ==
    [k \in { x \in DOMAIN reg : ~IsExpired(reg[x], t) } |-> reg[k]]

\* self.watched_threads = threads_to_keep
RegistryNotReplaced(reg, keep) == reg

RegistryAfterSweep(reg, keep) == keep

\* The frame of a fresh _process_single_thread(thread_data) coroutine. `my_posts` is
\* history: the ts of the messages the coroutine posted.
NewTask(thread_data) ==
    [thread_data |-> thread_data, pc |-> "replies", outcome |-> None,
     classifier_response |-> None, notification_ts |-> NoTs, my_posts |-> {}]

Sweep ==
    /\ review_pc = "idle"
    /\ now <= MaxTime
    /\ LET expired == ExpiredKeys(watched_threads, now)
           keep == ThreadsToKeep(watched_threads, now)
       IN  /\ watched_threads' = RegistryAfterSweep(watched_threads, keep)
           /\ IF expired = {}
              THEN /\ UNCHANGED <<review_pc, review_now, threads_to_keep, tasks,
                                  registry_at_sweep, prev_sweep_now, quiet_sweep>>
              ELSE /\ review_pc' = "gather"
                   /\ review_now' = now
                   /\ threads_to_keep' = keep
                   /\ tasks' = [k \in expired |-> NewTask(watched_threads[k])]
                   /\ registry_at_sweep' = watched_threads
                   /\ prev_sweep_now' = last_sweep_now
                   /\ quiet_sweep' = (last_sweep_now >= 0 /\ ~added_since_sweep)
    /\ last_sweep_now' = now
    /\ added_since_sweep' = FALSE
    /\ reply_hist' = [k \in { x \in DOMAIN reply_hist :
                                 x \notin ExpiredKeys(watched_threads, now) } |->
                          IF reply_hist[k] = "resolved" THEN "spared" ELSE reply_hist[k]]
    /\ UNCHANGED <<now, platform_replies, posted, review_raised, link_file, store_vars, probe_vars,
                   session_vars, loop_vars, engine_vars, dedup_vars>>

\* await asyncio.gather(*tasks) returns once every coroutine has finished.
GatherReturnsAtOnce(ts) == TRUE

GatherReturns(ts) == \A k \in DOMAIN ts : ts[k].pc = "done"

\* review_watched_threads returns to the loop, which sleeps again; the frames of the
\* finished coroutines are gone.
ReviewReturn ==
    /\ review_pc = "gather"
    /\ GatherReturns(tasks)
    /\ review_pc' = "idle"
    /\ review_now' = 0
    /\ threads_to_keep' = EmptyDict
    /\ tasks' = [k \in { x \in DOMAIN tasks : tasks[x].pc # "done" } |-> tasks[k]]
    /\ registry_at_sweep' = EmptyDict
    /\ prev_sweep_now' = -1
    /\ quiet_sweep' = FALSE
    /\ UNCHANGED <<now, watched_threads, platform_replies, posted, last_sweep_now,
                   added_since_sweep, reply_hist, review_raised, link_file, store_vars, probe_vars,
                   session_vars, loop_vars, engine_vars, dedup_vars>>

-----------------------------------------------------------------------------
(* PassiveMessageHandler._process_single_thread, one action per await *)

\* Exceptions the collaborators raise: the chat platform client, the HTTP client of
\* the reasoning engine, the link file.
Exceptions == {"SlackApiError", "HTTPError", "OSError"}

\* `except Exception` of _process_single_thread catches the exception.
CaughtSlackErrorsOnly(exc) == exc = "SlackApiError"

CaughtByProcess(exc) == exc \in {"SlackApiError", "HTTPError", "OSError"}

\* The except clause logs the error and does nothing to the watch list.
RetryOnError(reg, thread_data) ==
    DictSet(reg, ThreadKey(thread_data.channel_id, thread_data.thread_ts), thread_data)

RegistryAfterError(reg, thread_data) == reg

\* What the reasoning engine can stream back to the classifier prompt, concatenated;
\* "" is the result of a non-200 answer, "not yes" an answer in the model's own words.
ClassifierResponses == {"Yes", "no", "", "not yes"}

\* return "yes" in response.lower()
AlwaysTechnicalQuestion(response) == TRUE

IsTechnicalQuestion(response) == Contains("yes", Lower(response))

\* len(replies.get("messages", [])) > 1
HasReplies(n_messages) == n_messages > 1

\* channel and thread_ts of the chat_postMessage that posts the response
ResponseTargetTopLevel(thread_data) == <<thread_data.channel_id, None>>

ResponseTarget(thread_data) == <<thread_data.channel_id, thread_data.thread_ts>>

\* self.monitored_channels.get(thread_data["channel_id"])
NotificationChannel(thread_data) ==
    IF thread_data.channel_id \in DOMAIN monitored_channels
    THEN monitored_channels[thread_data.channel_id]
    ELSE None

\* The except clauses of the loop of review_threads_periodically: the position of
\* the loop after an exception left review_watched_threads.
LoopBreaksOnException(exc) == "cancelled"

LoopSwallowsCancel(exc) == "idle"

LoopAfterException(exc) == IF exc = "CancelledError" THEN "cancelled" ELSE "idle"

\* An exception raised inside the coroutine k. Caught, it ends the coroutine; not
\* caught, it leaves through asyncio.gather and review_watched_threads at once, and
\* the sibling coroutines are left behind.
Raise(k, exc, new_posted, new_task) ==
    /\ posted' = new_posted
    /\ IF CaughtByProcess(exc)
       THEN /\ tasks' = [tasks EXCEPT ![k] = [new_task EXCEPT !.pc = "done", !.outcome = "error"]]
            /\ watched_threads' = RegistryAfterError(watched_threads, tasks[k].thread_data)
            /\ UNCHANGED <<review_pc, review_raised>>
       ELSE /\ tasks' = [tasks EXCEPT ![k] = [new_task EXCEPT !.pc = "done", !.outcome = "raised"]]
            /\ review_pc' = LoopAfterException(exc)
            /\ review_raised' = TRUE
            /\ UNCHANGED watched_threads
    /\ UNCHANGED <<now, review_now, threads_to_keep, platform_replies, registry_at_sweep,
                   last_sweep_now, prev_sweep_now, added_since_sweep, quiet_sweep,
                   reply_hist, link_file, store_vars, probe_vars,
                   session_vars, loop_vars, engine_vars, dedup_vars>>

\* A step of coroutine k that raises nothing and touches only its frame.
Proceed(k, new_task) ==
    /\ tasks' = [tasks EXCEPT ![k] = new_task]
    /\ UNCHANGED <<now, watched_threads, review_pc, review_now, threads_to_keep,
                   platform_replies, posted, registry_at_sweep, last_sweep_now,
                   prev_sweep_now, added_since_sweep, quiet_sweep, reply_hist,
                   review_raised, link_file, store_vars, probe_vars,
                   session_vars, loop_vars, engine_vars, dedup_vars>>

Running(k, pc) == k \in DOMAIN tasks /\ tasks[k].pc = pc

\* await self.client.conversations_replies(...), then the check for replies
QueryReplies(k) ==
    /\ Running(k, "replies")
    /\ LET td == tasks[k].thread_data
           seen == tasks[k]
       IN  \/ Raise(k, "SlackApiError", posted, tasks[k])
           \/ IF HasReplies(ConversationsReplies(platform_replies, td.channel_id,
                                                 td.thread_ts, ReplyLimit))
              THEN Proceed(k, [seen EXCEPT !.pc = "done", !.outcome = "has_replies"])
              ELSE Proceed(k, [seen EXCEPT !.pc = "classify"])

\* await self._is_technical_question(text)
Classify(k) ==
    /\ Running(k, "classify")
    /\ \/ Raise(k, "HTTPError", posted, tasks[k])
       \/ \E response \in ClassifierResponses :
             LET answered == [tasks[k] EXCEPT !.classifier_response = response] IN
             IF IsTechnicalQuestion(response)
             THEN Proceed(k, [answered EXCEPT !.pc = "respond"])
             ELSE Proceed(k, [answered EXCEPT !.pc = "done", !.outcome = "skipped"])

\* await self._generate_response(text, user_id), markdown_to_slack, then
\* await self.client.chat_postMessage(channel, thread_ts, text), the metrics event and
\* the notification-channel lookup. The generation touches no state of the model.
Respond(k) ==
    /\ Running(k, "respond")
    /\ LET td == tasks[k].thread_data
           ts == NewTs(posted)
           target == ResponseTarget(td)
       IN  \/ Raise(k, "HTTPError", posted, tasks[k])
           \/ Raise(k, "SlackApiError", posted, tasks[k])
           \/ /\ Cardinality(posted) < MaxPosts
              /\ posted' = posted \cup {Message(target[1], target[2], ts)}
              /\ tasks' = [tasks EXCEPT ![k] =
                    [tasks[k] EXCEPT
                        !.my_posts = @ \cup {ts},
                        !.pc = IF Truthy(NotificationChannel(td)) THEN "notify" ELSE "done",
                        !.outcome = IF Truthy(NotificationChannel(td)) THEN None ELSE "answered"]]
              /\ UNCHANGED <<now, watched_threads, review_pc, review_now, threads_to_keep,
                             platform_replies, registry_at_sweep, last_sweep_now,
                             prev_sweep_now, added_since_sweep, quiet_sweep, reply_hist,
                             review_raised, link_file, store_vars, probe_vars,
                   session_vars, loop_vars, engine_vars, dedup_vars>>

\* await self._generate_notification(text, response), await chat_getPermalink(...),
\* await self.client.chat_postMessage(channel=notification_channel_id, text), then
\* self.thread_linker.create_link(...), which runs without suspension. Only the post
\* and the link touch state of the model.
Notify(k) ==
    /\ Running(k, "notify")
    /\ LET td == tasks[k].thread_data
           ts == NewTs(posted)
           sent == posted \cup {Message(NotificationChannel(td), None, ts)}
           noted == [tasks[k] EXCEPT !.my_posts = @ \cup {ts}, !.notification_ts = ts]
       IN  \/ Raise(k, "HTTPError", posted, tasks[k])
           \/ Raise(k, "SlackApiError", posted, tasks[k])
           \/ /\ Cardinality(posted) < MaxPosts
              /\ Raise(k, "OSError", sent, noted)
           \/ /\ Cardinality(posted) < MaxPosts
              /\ posted' = sent
              /\ link_file' = CreateLink(link_file, ts, td.channel_id, td.thread_ts)
              /\ tasks' = [tasks EXCEPT ![k] = [noted EXCEPT !.pc = "done", !.outcome = "answered"]]
              /\ UNCHANGED <<now, watched_threads, review_pc, review_now, threads_to_keep,
                             platform_replies, registry_at_sweep, last_sweep_now,
                             prev_sweep_now, added_since_sweep, quiet_sweep, reply_hist,
                             review_raised, store_vars, probe_vars,
                   session_vars, loop_vars, engine_vars, dedup_vars>>

ThreadKeys == { ThreadKey(id[1], id[2]) : id \in ThreadIds }

-----------------------------------------------------------------------------
(* The monitor: events, the clock, the periodic review *)

Init ==
    /\ now = 0
    /\ watched_threads = EmptyDict
    /\ review_pc = "idle"
    /\ review_now = 0
    /\ threads_to_keep = EmptyDict
    /\ tasks = EmptyDict
    /\ platform_replies = {}
    /\ posted = {}
    /\ link_file = EmptyDict
    /\ registry_at_sweep = EmptyDict
    /\ last_sweep_now = -1
    /\ prev_sweep_now = -1
    /\ added_since_sweep = FALSE
    /\ quiet_sweep = FALSE
    /\ reply_hist = EmptyDict
    /\ review_raised = FALSE
    /\ writer_pc = EmptyDict
    /\ writer_arg = EmptyDict
    /\ writer_links = EmptyDict
    /\ writer_lock = EmptyDict
    /\ lock_held = EmptyDict
    /\ finished = {}
    /\ sessions = EmptyDict
    /\ last_used = EmptyDict
    /\ cleanup_pc = "sleep"
    /\ stop_called = FALSE
    /\ session_file = <<>>
    /\ engine_count = 0
    /\ query = [c \in Callers |-> IdleQuery]
    /\ returned = {}
    /\ dedup_cache = <<>>
    /\ delivery = [d \in Deliveries |-> IdleDelivery]
    /\ admitted = EmptyDict
    /\ file_exists = TRUE
    /\ last_call = NoCall

Next ==
    \/ \E event \in Events : HandleMessage(event)
    \/ Tick
    \/ \E id \in RepliedThreadIds : HumanReply(id)
    \/ Sweep
    \/ ReviewReturn
    \/ \E k \in ThreadKeys : QueryReplies(k)
    \/ \E k \in ThreadKeys : Classify(k)
    \/ \E k \in ThreadKeys : Respond(k)
    \/ \E k \in ThreadKeys : Notify(k)

Spec == Init /\ [][Next]_vars

-----------------------------------------------------------------------------
(* ThreadLinkStorage.create_link called by concurrent writers on one file *)

Writers == {"w1", "w2"}

\* The notification ids each writer links: different ids for different writers.
WriterIds == [w \in Writers |-> IF w = "w1" THEN {101, 102} ELSE {103}]

\* Two threads on one ThreadLinkStorage share its lock; two processes have a
\* ThreadLinkStorage, and a lock, each.
Deployments == { [w \in Writers |-> "lock"], [w \in Writers |-> w] }

InitLinks ==
    /\ now = 0
    /\ watched_threads = EmptyDict
    /\ review_pc = "idle"
    /\ review_now = 0
    /\ threads_to_keep = EmptyDict
    /\ tasks = EmptyDict
    /\ platform_replies = {}
    /\ posted = {}
    /\ link_file = EmptyDict
    /\ registry_at_sweep = EmptyDict
    /\ last_sweep_now = -1
    /\ prev_sweep_now = -1
    /\ added_since_sweep = FALSE
    /\ quiet_sweep = FALSE
    /\ reply_hist = EmptyDict
    /\ review_raised = FALSE
    /\ writer_pc = [w \in Writers |-> "idle"]
    /\ writer_arg = [w \in Writers |-> None]
    /\ writer_links = [w \in Writers |-> EmptyDict]
    /\ writer_lock \in Deployments
    /\ lock_held = [l \in {writer_lock[w] : w \in Writers} |-> None]
    /\ finished = {}
    /\ sessions = EmptyDict
    /\ last_used = EmptyDict
    /\ cleanup_pc = "sleep"
    /\ stop_called = FALSE
    /\ session_file = <<>>
    /\ engine_count = 0
    /\ query = [c \in Callers |-> IdleQuery]
    /\ returned = {}
    /\ dedup_cache = <<>>
    /\ delivery = [d \in Deliveries |-> IdleDelivery]
    /\ admitted = EmptyDict
    /\ file_exists = TRUE
    /\ last_call = NoCall

\* create_link(notification_ts, original_channel_id, original_thread_ts) is called.
CallCreateLink(w, notification_ts, id) ==
    /\ writer_pc[w] = "idle"
    /\ writer_pc' = [writer_pc EXCEPT ![w] = "load"]
    /\ writer_arg' = [writer_arg EXCEPT ![w] =
          [notification_ts |-> notification_ts,
           original_channel_id |-> id[1], original_thread_ts |-> id[2]]]
    /\ UNCHANGED <<session_vars, loop_vars, engine_vars, dedup_vars, probe_vars, monitor_vars, link_file, writer_links, writer_lock, lock_held, finished>>

\* links = self._load_links(), under the lock, then links[notification_ts] = {...}
LoadStep(w) ==
    /\ writer_pc[w] = "load"
    /\ lock_held[writer_lock[w]] = None
    /\ writer_links' = [writer_links EXCEPT ![w] =
          LinksWith(LoadLinks(link_file), writer_arg[w].notification_ts,
                    writer_arg[w].original_channel_id, writer_arg[w].original_thread_ts)]
    /\ writer_pc' = [writer_pc EXCEPT ![w] = "save"]
    /\ UNCHANGED <<session_vars, loop_vars, engine_vars, dedup_vars, probe_vars, monitor_vars, link_file, writer_arg, writer_lock, lock_held, finished>>

\* self._save_links(links): the lock is taken and open(self.path, 'w') truncates the file
SaveOpen(w) ==
    /\ writer_pc[w] = "save"
    /\ lock_held[writer_lock[w]] = None
    /\ lock_held' = [lock_held EXCEPT ![writer_lock[w]] = w]
    /\ link_file' = EmptyDict
    /\ writer_pc' = [writer_pc EXCEPT ![w] = "write"]
    /\ UNCHANGED <<session_vars, loop_vars, engine_vars, dedup_vars, probe_vars, monitor_vars, writer_arg, writer_links, writer_lock, finished>>

\* json.dump(links, f), the file is closed, the lock released, create_link returns
SaveWrite(w) ==
    /\ writer_pc[w] = "write"
    /\ link_file' = writer_links[w]
    /\ lock_held' = [lock_held EXCEPT ![writer_lock[w]] = None]
    /\ writer_pc' = [writer_pc EXCEPT ![w] = "idle"]
    /\ writer_arg' = [writer_arg EXCEPT ![w] = None]
    /\ writer_links' = [writer_links EXCEPT ![w] = EmptyDict]
    /\ finished' = finished \cup {<<w, writer_arg[w].notification_ts>>}
    /\ UNCHANGED <<session_vars, loop_vars, engine_vars, dedup_vars, probe_vars, monitor_vars, writer_lock>>

NextLinks ==
    \/ \E w \in Writers : \E n \in WriterIds[w] : \E id \in ThreadIds : CallCreateLink(w, n, id)
    \/ \E w \in Writers : LoadStep(w)
    \/ \E w \in Writers : SaveOpen(w)
    \/ \E w \in Writers : SaveWrite(w)

SpecLinks == InitLinks /\ [][NextLinks]_vars

-----------------------------------------------------------------------------
(* PassiveMessageHandler.handle_message, call by call *)

\* More events of the same threads: the top-level message of another author or
\* with another text, a reply without text, fields that are present and empty.
MoreEvents ==
    { Event("C1", "T1", None, "U2", "how?", None),
      Event("C1", "T1", None, "U1", "why?", None),
      Event("C1", "R1", "T1", "U2", None, None),
      Event("C1", "T1", None, "U1", "", None),
      Event("C1", "T1", None, "", "how?", None),
      Event("C1", "", None, "U1", "how?", None),
      Event("", "T1", None, "U1", "how?", None),
      Event("C2", "R1", "T1", "U1", "<@U2> try x", None),
      Event("C2", "T1", None, "U2", "how?", "B1") }

HandledEvents == Events \cup MoreEvents

InitHandle == Init

\* handle_message(event) is called and returns.
HandleMessageCall(event) ==
    /\ HandleMessageEffect(event)
    /\ last_call' = [op |-> "handle_message", event |-> event,
                     registry |-> watched_threads, at |-> now]
    /\ UNCHANGED <<file_exists, session_vars, loop_vars, engine_vars, dedup_vars>>

NextHandle ==
    \/ \E event \in HandledEvents : HandleMessageCall(event)
    \/ Tick

SpecHandle == InitHandle /\ [][NextHandle]_vars

-----------------------------------------------------------------------------
(* ThreadLinkStorage used by one caller at a time, across restarts *)

\* The notification ids of the calls.
StoreIds == {101, 102, 103}

\* No file yet, no ThreadLinkStorage constructed.
InitStore ==
    /\ now = 0
    /\ watched_threads = EmptyDict
    /\ review_pc = "idle"
    /\ review_now = 0
    /\ threads_to_keep = EmptyDict
    /\ tasks = EmptyDict
    /\ platform_replies = {}
    /\ posted = {}
    /\ link_file = EmptyDict
    /\ registry_at_sweep = EmptyDict
    /\ last_sweep_now = -1
    /\ prev_sweep_now = -1
    /\ added_since_sweep = FALSE
    /\ quiet_sweep = FALSE
    /\ reply_hist = EmptyDict
    /\ review_raised = FALSE
    /\ writer_pc = EmptyDict
    /\ writer_arg = EmptyDict
    /\ writer_links = EmptyDict
    /\ writer_lock = EmptyDict
    /\ lock_held = EmptyDict
    /\ finished = {}
    /\ sessions = EmptyDict
    /\ last_used = EmptyDict
    /\ cleanup_pc = "sleep"
    /\ stop_called = FALSE
    /\ session_file = <<>>
    /\ engine_count = 0
    /\ query = [c \in Callers |-> IdleQuery]
    /\ returned = {}
    /\ dedup_cache = <<>>
    /\ delivery = [d \in Deliveries |-> IdleDelivery]
    /\ admitted = EmptyDict
    /\ file_exists = FALSE
    /\ last_call = [op |-> "none", notification_ts |-> NoTs, result |-> None,
                    file |-> EmptyDict, created |-> EmptyDict, reopened |-> FALSE]

\* ThreadLinkStorage(path): a process starts and constructs its store; the file is
\* there once a constructor has run.
NewStorage ==
    /\ link_file' = EnsureFileExists(file_exists, link_file)
    /\ file_exists' = TRUE
    /\ last_call' = [last_call EXCEPT !.op = "__init__", !.notification_ts = NoTs,
                                      !.result = None, !.file = link_file,
                                      !.reopened = TRUE]
    /\ UNCHANGED <<session_vars, loop_vars, engine_vars, dedup_vars, monitor_vars, store_vars>>

\* create_link(notification_ts, id[1], id[2]) on a constructed store, to its return.
\* History: `created` keeps the link of the latest create_link of each id.
CreateLinkCall(notification_ts, id) ==
    /\ file_exists
    /\ link_file' = CreateLink(link_file, notification_ts, id[1], id[2])
    /\ last_call' = [last_call EXCEPT
          !.op = "create_link", !.notification_ts = notification_ts,
          !.result = None, !.file = link_file,
          !.created = DictSet(last_call.created, notification_ts,
                              [original_channel_id |-> id[1], original_thread_ts |-> id[2]]),
          !.reopened = FALSE]
    /\ UNCHANGED <<session_vars, loop_vars, engine_vars, dedup_vars, monitor_vars, store_vars, file_exists>>

\* get_link(notification_ts) on a constructed store, to its return.
GetLinkCall(notification_ts) ==
    /\ file_exists
    /\ last_call' = [last_call EXCEPT
          !.op = "get_link", !.notification_ts = notification_ts,
          !.result = GetLink(link_file, notification_ts), !.file = link_file]
    /\ UNCHANGED <<session_vars, loop_vars, engine_vars, dedup_vars, monitor_vars, store_vars, file_exists, link_file>>

NextStore ==
    \/ NewStorage
    \/ \E n \in StoreIds : \E id \in ThreadIds : CreateLinkCall(n, id)
    \/ \E n \in StoreIds : GetLinkCall(n)

SpecStore == InitStore /\ [][NextStore]_vars

-----------------------------------------------------------------------------
(* SessionManager *)

\* The clock of the model ticks this many times in a second of time.time().
TicksPerSecond == 2

\* f"session-{int(time.time())}" at clock reading t
SessionId(t) == "session-" \o ToString(t \div TicksPerSecond)

\* The conversation keys of the calls, as (channel, thread_ts).
SessionKeys == { <<"C1", "T1">>, <<"C1", "T2">> }

\* self.sessions after get_or_create_session(key) at clock reading t
SessionsAfterGetAlwaysNew(ss, key, t) == DictSet(ss, key, SessionId(t))

SessionsAfterGet(ss, key, t) ==
    IF key \notin DOMAIN ss THEN DictSet(ss, key, SessionId(t)) ELSE ss

\* cutoff of purge_old as cleanup_sessions passes it: session_timeout_minutes * 60
\* seconds, in ticks of the clock.
SessionCutoff == 1

\* The keys purge_old(cutoff) pops at clock reading t: now - t > cutoff
PurgedKeysInclusive(lu, t, cutoff) == { k \in DOMAIN lu : t - lu[k] >= cutoff }

PurgedKeys(lu, t, cutoff) == { k \in DOMAIN lu : t - lu[k] > cutoff }

\* self.sessions and self.last_used after purge_old(cutoff) at clock reading t
SessionsAfterPurge(ss, lu, t, cutoff) ==
    [k \in DOMAIN ss \ PurgedKeys(lu, t, cutoff) |-> ss[k]]

LastUsedAfterPurge(lu, t, cutoff) ==
    [k \in DOMAIN lu \ PurgedKeys(lu, t, cutoff) |-> lu[k]]

InitSessions ==
    /\ now = 0
    /\ watched_threads = EmptyDict
    /\ review_pc = "idle"
    /\ review_now = 0
    /\ threads_to_keep = EmptyDict
    /\ tasks = EmptyDict
    /\ platform_replies = {}
    /\ posted = {}
    /\ link_file = EmptyDict
    /\ registry_at_sweep = EmptyDict
    /\ last_sweep_now = -1
    /\ prev_sweep_now = -1
    /\ added_since_sweep = FALSE
    /\ quiet_sweep = FALSE
    /\ reply_hist = EmptyDict
    /\ review_raised = FALSE
    /\ writer_pc = EmptyDict
    /\ writer_arg = EmptyDict
    /\ writer_links = EmptyDict
    /\ writer_lock = EmptyDict
    /\ lock_held = EmptyDict
    /\ finished = {}
    /\ file_exists = TRUE
    /\ sessions = EmptyDict
    /\ last_used = EmptyDict
    /\ cleanup_pc = "sleep"
    /\ stop_called = FALSE
    /\ session_file = <<>>
    /\ engine_count = 0
    /\ query = [c \in Callers |-> IdleQuery]
    /\ returned = {}
    /\ dedup_cache = <<>>
    /\ delivery = [d \in Deliveries |-> IdleDelivery]
    /\ admitted = EmptyDict
    /\ last_call = [op |-> "none", key |-> <<"", "">>, result |-> "",
                    sessions |-> EmptyDict, last_used |-> EmptyDict, at |-> 0]

\* What a call of the SessionManager leaves alone.
SessionFrame ==
    UNCHANGED <<monitor_vars, link_file, store_vars, file_exists, loop_vars, engine_vars, dedup_vars>>

\* The observation of a call: its name, its key, its result, the state it found.
SessionCall(op, key, result) ==
    [op |-> op, key |-> key, result |-> result,
     sessions |-> sessions, last_used |-> last_used, at |-> now]

\* get_or_create_session(channel, thread_ts)
GetOrCreateSessionCall(key) ==
    /\ sessions' = SessionsAfterGet(sessions, key, now)
    /\ last_call' = SessionCall("get_or_create_session", key,
                                SessionsAfterGet(sessions, key, now)[key])
    /\ UNCHANGED last_used
    /\ SessionFrame

\* update_last_used(channel, thread_ts)
UpdateLastUsedCall(key) ==
    /\ last_used' = DictSet(last_used, key, now)
    /\ last_call' = SessionCall("update_last_used", key, "")
    /\ UNCHANGED sessions
    /\ SessionFrame

\* purge_old(cutoff)
PurgeOldCall ==
    /\ sessions' = SessionsAfterPurge(sessions, last_used, now, SessionCutoff)
    /\ last_used' = LastUsedAfterPurge(last_used, now, SessionCutoff)
    /\ last_call' = SessionCall("purge_old", <<"", "">>, "")
    /\ SessionFrame

NextSessions ==
    \/ \E key \in SessionKeys : GetOrCreateSessionCall(key)
    \/ \E key \in SessionKeys : UpdateLastUsedCall(key)
    \/ PurgeOldCall
    \/ Tick

SpecSessions == InitSessions /\ [][NextSessions]_vars

-----------------------------------------------------------------------------
(* SlackBot: the background loops review_threads_periodically and cleanup_sessions,
   and stop *)

\* The bot has run for one tick of the clock: the registry holds a watch made then,
\* no sweep has run yet, and nothing has made a session.
InitLoop ==
    /\ now = 0
    /\ watched_threads =
          DictSet(EmptyDict, ThreadKey("C2", "T1"),
                  [channel_id |-> "C2", thread_ts |-> "T1", user_id |-> "U2",
                   text |-> "how?", timestamp |-> -1])
    /\ review_pc = "idle"
    /\ review_now = 0
    /\ threads_to_keep = EmptyDict
    /\ tasks = EmptyDict
    /\ platform_replies = {}
    /\ posted = {}
    /\ link_file = EmptyDict
    /\ registry_at_sweep = EmptyDict
    /\ last_sweep_now = -1
    /\ prev_sweep_now = -1
    /\ added_since_sweep = FALSE
    /\ quiet_sweep = FALSE
    /\ reply_hist = EmptyDict
    /\ review_raised = FALSE
    /\ writer_pc = EmptyDict
    /\ writer_arg = EmptyDict
    /\ writer_links = EmptyDict
    /\ writer_lock = EmptyDict
    /\ lock_held = EmptyDict
    /\ finished = {}
    /\ sessions = EmptyDict
    /\ last_used = EmptyDict
    /\ cleanup_pc = "sleep"
    /\ stop_called = FALSE
    /\ session_file = <<>>
    /\ engine_count = 0
    /\ query = [c \in Callers |-> IdleQuery]
    /\ returned = {}
    /\ dedup_cache = <<>>
    /\ delivery = [d \in Deliveries |-> IdleDelivery]
    /\ admitted = EmptyDict
    /\ file_exists = TRUE
    /\ last_call = NoCall

\* The message events of this specification: the two top-level messages, a reply of
\* another user and a reply without a user.
LoopEvents ==
    TopLevelEvents \cup { Event("C1", "R1", "T1", "U2", "try x", None),
                          Event("C1", "R1", "T1", None, "try x", None) }

\* handle_message(event); the clock of the model stops at MaxTime, so a watch is made
\* only while its timeout can still run out.
LoopHandleMessage(event) ==
    /\ AddsWatch(event) => now + NoResponseTimeout < MaxTime
    /\ HandleMessage(event)

\* An exception that review_watched_threads itself raises, before it replaces the
\* registry.
ReviewExceptions == {"RuntimeError"}

\* await self.passive_message_handler.review_watched_threads() raises exc; the except
\* clauses of the loop decide what follows.
ReviewFails(exc) ==
    /\ review_pc = "idle"
    /\ review_pc' = LoopAfterException(exc)
    /\ review_raised' = TRUE
    /\ UNCHANGED <<now, watched_threads, review_now, threads_to_keep, tasks,
                   platform_replies, posted, registry_at_sweep, last_sweep_now,
                   prev_sweep_now, added_since_sweep, quiet_sweep, reply_hist,
                   link_file, store_vars, probe_vars, session_vars, loop_vars, engine_vars, dedup_vars>>

\* The except clauses of the loop of cleanup_sessions: the position of the loop after
\* an exception.
CleanupAfterException(exc) == IF exc = "CancelledError" THEN "cancelled" ELSE "sleep"

\* cleanup_sessions: asyncio.sleep(300) returns, purge_old(cutoff) runs, the loop
\* sleeps again.
CleanupSessions ==
    /\ cleanup_pc = "sleep"
    /\ sessions' = SessionsAfterPurge(sessions, last_used, now, SessionCutoff)
    /\ last_used' = LastUsedAfterPurge(last_used, now, SessionCutoff)
    /\ UNCHANGED <<monitor_vars, link_file, store_vars, probe_vars, loop_vars, engine_vars, dedup_vars>>

\* stop(): task.cancel() for both background tasks, then the gather of them. The
\* cancellation reaches the loop of review_threads_periodically at its await: the
\* sleep, or the gather inside review_watched_threads, which cancels every coroutine
\* it waits for; CancelledError is no Exception, so a coroutine of
\* _process_single_thread leaves at its await and does nothing more. The locals of
\* the sweep stay as history.
Stop ==
    /\ ~stop_called
    /\ stop_called' = TRUE
    /\ review_pc' = LoopAfterException("CancelledError")
    /\ cleanup_pc' = CleanupAfterException("CancelledError")
    /\ tasks' = EmptyDict
    /\ last_call' = [op |-> "stop", review_pc |-> review_pc, tasks |-> tasks,
                     registry |-> watched_threads, link_file |-> link_file]
    /\ UNCHANGED <<now, watched_threads, review_now, threads_to_keep, platform_replies,
                   posted, registry_at_sweep, last_sweep_now, prev_sweep_now,
                   added_since_sweep, quiet_sweep, reply_hist, review_raised,
                   link_file, store_vars, file_exists, session_vars,
                   engine_vars, dedup_vars>>

\* The steps of the coroutines of _process_single_thread.
ProcessStep(k) == QueryReplies(k) \/ Classify(k) \/ Respond(k) \/ Notify(k)

NextLoop ==
    \/ \E event \in LoopEvents : LoopHandleMessage(event)
    \/ Tick
    \/ Sweep
    \/ ReviewReturn
    \/ \E k \in ThreadKeys : QueryReplies(k)
    \/ \E k \in ThreadKeys : Classify(k)
    \/ \E k \in ThreadKeys : Respond(k)
    \/ \E k \in ThreadKeys : Notify(k)
    \/ \E exc \in ReviewExceptions : ReviewFails(exc)
    \/ CleanupSessions
    \/ Stop

\* The event loop runs every coroutine that can run: time passes, the sleep of the
\* review loop ends, an await of a coroutine of _process_single_thread returns or
\* raises, and gather returns when its coroutines are done.
LoopFairness ==
    /\ WF_vars(Tick)
    /\ WF_vars(Sweep)
    /\ WF_vars(ReviewReturn)
    /\ \A k \in ThreadKeys : WF_vars(ProcessStep(k))

SpecLoop == InitLoop /\ [][NextLoop]_vars /\ LoopFairness

-----------------------------------------------------------------------------
(* AgentEngineClient.get_or_create_session and SessionStorage *)

\* The reasoning engine creates this many sessions, then answers with an error.
MaxEngineSessions == 3

\* The arguments of the calls: channel_id None is what the passive monitor passes.
EngineChannels == {None, "C1"}

EngineUsers == {"U1"}

\* channel_id or ""
OrEmpty(channel_id) == IF Truthy(channel_id) THEN channel_id ELSE ""

\* A record of the session list, as json.dump writes and json.load reads it.
SessionRecord(channel_id, user_id, session_id) ==
    [channel_id |-> channel_id, user_id |-> user_id, session_id |-> session_id]

\* key = (channel_id, user_id) if channel_id else (None, user_id)
GetSessionKey(channel_id, user_id) ==
    IF Truthy(channel_id) THEN <<channel_id, user_id>> ELSE <<None, user_id>>

\* SessionStorage.get_session: the position in the list of the first record whose
\* (channel_id, user_id) equals the key; 0 stands for the result None.
GetSession(file, channel_id, user_id) ==
    LET hits == { i \in 1..Len(file) :
                    <<file[i].channel_id, file[i].user_id>> = GetSessionKey(channel_id, user_id) }
    IN  IF hits = {} THEN 0 ELSE CHOOSE i \in hits : \A j \in hits : i <= j

\* SessionStorage.create_session: load, append, save; no await in between.
CreateSession(file, channel_id, user_id, session_id) ==
    Append(file, SessionRecord(channel_id, user_id, session_id))

\* History: the session ids that calls for (channel_id, user_id) have returned.
ReturnedFor(channel_id, user_id) ==
    { r[3] : r \in { x \in returned : x[1] = channel_id /\ x[2] = user_id } }

\* The observation of a call that returns: its arguments, its result, and what it
\* found when it began: the ids returned before for its key, the list, the count of
\* engine sessions.
EngineCall(channel_id, user_id, result, prior, file, engine) ==
    [op |-> "engine_get_or_create_session", channel_id |-> channel_id,
     user_id |-> user_id, result |-> result, prior |-> prior, file |-> file,
     engine |-> engine]

EngineFrame ==
    UNCHANGED <<monitor_vars, link_file, store_vars, file_exists, session_vars,
                loop_vars, dedup_vars>>

\* get_or_create_session(channel_id, user_id) up to its first await: the lookup, and
\* the return of the stored id when there is one.
GetOrCreateSessionBegin(c, channel_id, user_id) ==
    /\ query[c].pc = "idle"
    /\ LET existing == GetSession(session_file, OrEmpty(channel_id), user_id) IN
       IF existing # 0
       THEN /\ last_call' = EngineCall(channel_id, user_id,
                                       session_file[existing].session_id,
                                       ReturnedFor(channel_id, user_id),
                                       session_file, engine_count)
            /\ returned' = returned \cup
                  {<<channel_id, user_id, session_file[existing].session_id>>}
            /\ UNCHANGED <<session_file, engine_count, query>>
       ELSE /\ query' = [query EXCEPT ![c] =
                  [pc |-> "create", channel_id |-> channel_id, user_id |-> user_id,
                   prior |-> ReturnedFor(channel_id, user_id),
                   file |-> session_file, engine |-> engine_count]]
            /\ UNCHANGED <<session_file, engine_count, returned, last_call>>
    /\ EngineFrame

\* await self._create_new_session(user_id) returns the id of a new engine session;
\* create_session stores the record and the call returns the id.
CreateNewSessionReturns(c) ==
    /\ query[c].pc = "create"
    /\ engine_count < MaxEngineSessions
    /\ LET session_id == engine_count + 1 IN
       /\ engine_count' = session_id
       /\ session_file' = CreateSession(session_file, OrEmpty(query[c].channel_id),
                                        query[c].user_id, session_id)
       /\ returned' = returned \cup {<<query[c].channel_id, query[c].user_id, session_id>>}
       /\ last_call' = EngineCall(query[c].channel_id, query[c].user_id, session_id,
                                  query[c].prior, query[c].file, query[c].engine)
    /\ query' = [query EXCEPT ![c] = IdleQuery]
    /\ EngineFrame

\* await self._create_new_session(user_id) raises ValueError: no session, no record.
CreateNewSessionFails(c) ==
    /\ query[c].pc = "create"
    /\ query' = [query EXCEPT ![c] = IdleQuery]
    /\ UNCHANGED <<session_file, engine_count, returned, last_call>>
    /\ EngineFrame

InitEngine == Init

NextEngine ==
    \/ \E c \in Callers : \E channel_id \in EngineChannels : \E user_id \in EngineUsers :
          GetOrCreateSessionBegin(c, channel_id, user_id)
    \/ \E c \in Callers : CreateNewSessionReturns(c)
    \/ \E c \in Callers : CreateNewSessionFails(c)

SpecEngine == InitEngine /\ [][NextEngine]_vars

-----------------------------------------------------------------------------
(* deduplicate_event and SlackEventDeduplicator *)

\* max_events of the LRUCache, scaled down.
MaxEvents == 2

\* The argument the wrapper takes for the event: a dict with these keys (None: the key
\* is absent; assistant_thread is <<>> when absent, else the one-element list of its
\* thread_ts), or something that is no dict.
DedupArg(is_dict, event_id, client_msg_id, assistant_thread, event_ts) ==
    [is_dict |-> is_dict, event_id |-> event_id, client_msg_id |-> client_msg_id,
     assistant_thread |-> assistant_thread, event_ts |-> event_ts]

DedupArgs ==
    { DedupArg(TRUE, "E1", "M1", <<"T1">>, "9"),
      DedupArg(TRUE, None, "M1", <<"T1">>, "9"),
      DedupArg(TRUE, "", None, <<"T1">>, "9"),
      DedupArg(TRUE, None, "", <<None>>, "9"),
      DedupArg(TRUE, None, None, <<>>, "9"),
      DedupArg(TRUE, None, None, <<>>, None),
      DedupArg(TRUE, None, None, <<"">>, ""),
      DedupArg(FALSE, None, None, <<>>, None) }

\* tid = assistant_thread.get('thread_ts') when assistant_thread is not None
AssistantThreadTs(event) ==
    IF event.assistant_thread = <<>> THEN None ELSE event.assistant_thread[1]

\* dedup_key of the wrapper for an event dict; None when no key is found.
DedupKeyClientFirst(event) ==
    IF Truthy(event.client_msg_id) THEN "client_msg_id:" \o event.client_msg_id
    ELSE IF Truthy(event.event_id) THEN "event_id:" \o event.event_id
    ELSE IF Truthy(AssistantThreadTs(event)) THEN "thread_id:" \o AssistantThreadTs(event)
    ELSE IF Truthy(event.event_ts) THEN "event_ts:" \o event.event_ts
    ELSE None

DedupKey(event) ==
    IF Truthy(event.event_id) THEN "event_id:" \o event.event_id
    ELSE IF Truthy(event.client_msg_id) THEN "client_msg_id:" \o event.client_msg_id
    ELSE IF Truthy(AssistantThreadTs(event)) THEN "thread_id:" \o AssistantThreadTs(event)
    ELSE IF Truthy(event.event_ts) THEN "event_ts:" \o event.event_ts
    ELSE None

\* dedup_key in self._cache
InCache(cache, key) == \E i \in 1..Len(cache) : cache[i] = key

\* self._cache[dedup_key] = True of the LRUCache: a key that is there becomes the most
\* recently used one; a new key evicts the least recently used one of a full cache.
CacheSet(cache, key) ==
    IF InCache(cache, key) THEN Append(SelectSeq(cache, LAMBDA k : k # key), key)
    ELSE IF Len(cache) >= MaxEvents THEN Append(Tail(cache), key)
    ELSE Append(cache, key)

\* The result of is_duplicate(dedup_key).
IsDuplicateNever(cache, key) == FALSE

IsDuplicate(cache, key) == InCache(cache, key)

\* The cache after is_duplicate(dedup_key).
CacheAfterIsDuplicate(cache, key) ==
    IF IsDuplicate(cache, key) THEN cache ELSE CacheSet(cache, key)

\* History: the handler runs let through per key of the cache, after a run for key
\* was let through and the cache became `cache`.
AdmittedAfter(adm, before, cache, key) ==
    [k \in { x \in DOMAIN adm \cup {key} : InCache(cache, x) } |->
        IF k = key
        THEN (IF InCache(before, key) /\ key \in DOMAIN adm THEN adm[key] ELSE 0) + 1
        ELSE adm[k]]

\* The observation of the decision of the wrapper for one delivery.
DedupCall(arg, key, result) ==
    [op |-> "deduplicate_event", arg |-> arg, key |-> key, cache |-> dedup_cache,
     result |-> result]

DedupFrame ==
    UNCHANGED <<monitor_vars, link_file, store_vars, file_exists, session_vars,
                loop_vars, engine_vars>>

\* The wrapper is called with arg: it extracts the event and the key. Without an
\* event dict or without a key it goes on to the handler; with a key it goes on to
\* is_duplicate.
WrapperBegin(d, arg) ==
    /\ delivery[d].pc = "idle"
    /\ LET key == IF arg.is_dict THEN DedupKey(arg) ELSE None IN
       IF Truthy(key)
       THEN /\ delivery' = [delivery EXCEPT ![d] =
                  [pc |-> "is_duplicate", outcome |-> "none", arg |-> arg, key |-> key]]
            /\ UNCHANGED last_call
       ELSE /\ delivery' = [delivery EXCEPT ![d] =
                  [pc |-> "handler", outcome |-> "none", arg |-> arg, key |-> key]]
            /\ last_call' = DedupCall(arg, key, "run")
    /\ UNCHANGED <<dedup_cache, admitted>>
    /\ DedupFrame

\* await DEDUPLICATOR.is_duplicate(dedup_key): under the lock, with no await inside,
\* the membership test and the insertion; then the skip or the call of the handler.
IsDuplicateStep(d) ==
    /\ delivery[d].pc = "is_duplicate"
    /\ LET key == delivery[d].key
           after == CacheAfterIsDuplicate(dedup_cache, key)
       IN  /\ dedup_cache' = after
           /\ IF IsDuplicate(dedup_cache, key)
              THEN /\ delivery' = [delivery EXCEPT ![d] =
                         [pc |-> "idle", outcome |-> "skipped", arg |-> delivery[d].arg,
                          key |-> key]]
                   /\ last_call' = DedupCall(delivery[d].arg, key, "skip")
                   /\ UNCHANGED admitted
              ELSE /\ delivery' = [delivery EXCEPT ![d].pc = "handler"]
                   /\ last_call' = DedupCall(delivery[d].arg, key, "run")
                   /\ admitted' = AdmittedAfter(admitted, dedup_cache, after, key)
    /\ DedupFrame

\* return await fn(*args, **kwargs): the handler returns.
HandlerReturns(d) ==
    /\ delivery[d].pc = "handler"
    /\ delivery' = [delivery EXCEPT ![d] =
          [pc |-> "idle", outcome |-> "ran", arg |-> delivery[d].arg,
           key |-> delivery[d].key]]
    /\ UNCHANGED <<dedup_cache, admitted, last_call>>
    /\ DedupFrame

InitDedup == Init

NextDedup ==
    \/ \E d \in Deliveries : \E arg \in DedupArgs : WrapperBegin(d, arg)
    \/ \E d \in Deliveries : IsDuplicateStep(d)
    \/ \E d \in Deliveries : HandlerReturns(d)

SpecDedup == InitDedup /\ [][NextDedup]_vars

-----------------------------------------------------------------------------
(* Properties *)

Timestamp(w) == w.timestamp

\* The keys a step hands to per-thread processing.
NewlyProcessed == IF tasks' # tasks /\ review_pc = "idle" THEN DOMAIN tasks' ELSE {}

\* The messages coroutine k posted.
PostedBy(k) == { m \in posted : m.ts \in tasks[k].my_posts }

\* C1, as stated: once a reply event of a user other than the author of the watch
\* has been handled for a watched key, no later sweep hands that key to processing.
C1_RepliedKeyNeverProcessed ==
    [][\A k \in NewlyProcessed : k \notin DOMAIN reply_hist]_vars

\* C1, amended: a reply event that carries no mention marker and no bot_id, from a
\* user other than the author of the watch, removes the watch of its thread at once,
\* and no later sweep hands the key to processing as long as no later top-level
\* message event has created a new watch for it.
C1_ResolvedKeyNotProcessed ==
    /\ [](\A k \in DOMAIN reply_hist :
            reply_hist[k] \in {"resolved", "spared"} => k \notin DOMAIN watched_threads)
    /\ [][\A k \in NewlyProcessed :
            ~(k \in DOMAIN reply_hist /\ reply_hist[k] \in {"resolved", "spared"})]_vars

\* A sweep that processes another thread has run after the reply resolved the key.
C1_Witness ==
    \E k \in DOMAIN reply_hist :
        /\ reply_hist[k] = "spared"
        /\ review_pc = "gather"
        /\ k \notin DOMAIN tasks
        /\ last_sweep_now > NoResponseTimeout

\* C2: a coroutine whose reply query is answered while the origin thread holds a
\* reply of a person ends there, classified as resolved by reply; it goes on to no
\* classification, response, notification or link.
C2_RepliedThreadIsResolved ==
    [][\A k \in DOMAIN tasks :
          ( /\ tasks[k].pc = "replies"
            /\ k \in DOMAIN tasks'
            /\ tasks'[k].pc # "replies"
            /\ tasks'[k].outcome # "error"
            /\ <<tasks[k].thread_data.channel_id, tasks[k].thread_data.thread_ts>>
                   \in platform_replies )
          => (tasks'[k].pc = "done" /\ tasks'[k].outcome = "has_replies")]_vars

\* C4: a sweep takes a watch as expired exactly when watched_at + timeout < now; a
\* watch with now - watched_at <= timeout is not handed to processing and stays in
\* the registry unchanged.
C4_SweptExactlyWhenStrictlyExpired ==
    [][Sweep =>
        \A k \in DOMAIN watched_threads :
            IF Timestamp(watched_threads[k]) + NoResponseTimeout < now
            THEN /\ k \in DOMAIN tasks'
                 /\ tasks'[k].thread_data = watched_threads[k]
                 /\ k \notin DOMAIN watched_threads'
            ELSE /\ k \notin DOMAIN tasks'
                 /\ k \in DOMAIN watched_threads'
                 /\ watched_threads'[k] = watched_threads[k]]_vars

\* A sweep took one watch and kept another whose age was exactly the timeout.
C4_Witness ==
    /\ review_pc = "gather"
    /\ tasks # EmptyDict
    /\ \E k \in DOMAIN threads_to_keep :
          Timestamp(threads_to_keep[k]) + NoResponseTimeout = review_now

\* C5: the expired set and the kept set of a sweep are disjoint and together are the
\* registry the sweep found; while the processing of the sweep is in flight, no step
\* of it and not its return changes the registry, so a watch handle_message adds
\* meanwhile is in the registry when review_watched_threads returns, and no step
\* hands a further watch to the processing of that sweep.
C5_SweepIsAtomic ==
    /\ [](review_pc = "gather" =>
            /\ DOMAIN tasks \cap DOMAIN threads_to_keep = {}
            /\ DOMAIN tasks \cup DOMAIN threads_to_keep = DOMAIN registry_at_sweep
            /\ \A k \in DOMAIN tasks : tasks[k].thread_data = registry_at_sweep[k]
            /\ \A k \in DOMAIN threads_to_keep : threads_to_keep[k] = registry_at_sweep[k])
    /\ [][(review_pc = "gather" /\ (tasks' # tasks \/ review_pc' # review_pc)) =>
            /\ watched_threads' = watched_threads
            /\ DOMAIN tasks' \subseteq DOMAIN tasks]_vars

\* A watch was added while the processing of a sweep was in flight, and is there
\* when every coroutine of the sweep has finished.
C5_Witness ==
    /\ review_pc = "gather"
    /\ \A k \in DOMAIN tasks : tasks[k].pc = "done"
    /\ \E k \in DOMAIN watched_threads :
          /\ k \notin DOMAIN threads_to_keep
          /\ Timestamp(watched_threads[k]) >= review_now

\* C6: a coroutine that ran to its end with every call succeeding and a classifier
\* answer of yes has posted exactly two messages: one response into the thread of
\* its watch and one notification, top-level, to the notification channel mapped to
\* the watch's channel; and get_link of the notification's ts returns the watch's
\* channel and thread.
C6_AnsweredThread ==
    \A k \in DOMAIN tasks :
        tasks[k].outcome = "answered" =>
            LET td == tasks[k].thread_data IN
            /\ Cardinality(PostedBy(k)) = 2
            /\ Cardinality({ m \in PostedBy(k) :
                   m.channel = td.channel_id /\ m.thread_ts = td.thread_ts }) = 1
            /\ \E m \in PostedBy(k) :
                   /\ \E map \in ChannelMappings :
                          /\ map.monitored_channel_id = td.channel_id
                          /\ map.notification_channel_id = m.channel
                   /\ m.thread_ts = None
                   /\ m.ts = tasks[k].notification_ts
                   /\ GetLink(link_file, m.ts) =
                          [original_channel_id |-> td.channel_id,
                           original_thread_ts |-> td.thread_ts]

\* A thread without replies was answered.
C6_Witness ==
    \E k \in DOMAIN tasks :
        /\ tasks[k].outcome = "answered"
        /\ tasks[k].pc = "done"
        /\ <<tasks[k].thread_data.channel_id, tasks[k].thread_data.thread_ts>>
               \notin platform_replies

\* C7: a coroutine whose classifier answered no is finished, skipped, and has posted
\* no message and holds no notification to link.
C7_ClassifierNoSkips ==
    \A k \in DOMAIN tasks :
        tasks[k].classifier_response = "no" =>
            /\ tasks[k].pc = "done"
            /\ tasks[k].outcome = "skipped"
            /\ PostedBy(k) = {}
            /\ tasks[k].my_posts = {}
            /\ tasks[k].notification_ts = NoTs
            /\ \A n \in DOMAIN link_file : n \notin tasks[k].my_posts

C7_Witness ==
    \E k \in DOMAIN tasks : tasks[k].classifier_response = "no" /\ tasks[k].pc = "done"

\* C8: no exception leaves review_watched_threads; a coroutine that failed is
\* finished with its error caught, and review_watched_threads returns only when
\* every coroutine of the sweep has reached its outcome.
C8_FailuresAreContained ==
    /\ ~review_raised
    /\ \A k \in DOMAIN tasks : tasks[k].outcome # "raised"
    /\ \A k \in DOMAIN tasks : tasks[k].outcome = "error" => tasks[k].pc = "done"
    /\ review_pc = "idle" => tasks = EmptyDict

\* One coroutine failed and a sibling of the same sweep was answered.
C8_Witness ==
    \E k1, k2 \in DOMAIN tasks :
        /\ k1 # k2
        /\ tasks[k1].outcome = "error"
        /\ tasks[k2].outcome = "answered"

\* C9: a watch taken by a sweep is not in the registry afterwards, whatever the
\* outcome of its processing, and is not processed again: the registry never holds
\* a watch that was expired at the latest sweep, and no sweep takes a watch that
\* was expired at the sweep before it.
C9_SweptWatchIsGone ==
    /\ \A k \in DOMAIN tasks :
          k \in DOMAIN watched_threads => watched_threads[k] # tasks[k].thread_data
    /\ \A k \in DOMAIN watched_threads :
          Timestamp(watched_threads[k]) + NoResponseTimeout >= last_sweep_now
    /\ \A k \in DOMAIN tasks :
          Timestamp(tasks[k].thread_data) + NoResponseTimeout >= prev_sweep_now

\* A coroutine failed and its watch is not back in the registry.
C9_Witness ==
    \E k \in DOMAIN tasks :
        /\ tasks[k].pc = "done"
        /\ tasks[k].outcome = "error"
        /\ k \notin DOMAIN watched_threads

\* C10, as stated: a sweep that follows another one with no watch added in between
\* finds nothing expired.
C10_SecondSweepFindsNothing == ~(review_pc = "gather" /\ quiet_sweep)

\* C10, amended: a sweep that follows another one with no watch added in between
\* takes no watch the earlier sweep took: what it takes was in the registry at the
\* earlier sweep and kept by it, and its timeout ran out between the two clock
\* readings; at the same clock reading it takes nothing.
C10_SecondSweepTakesOnlyNewlyExpired ==
    (review_pc = "gather" /\ quiet_sweep) =>
        /\ review_now > prev_sweep_now
        /\ \A k \in DOMAIN tasks :
              /\ Timestamp(tasks[k].thread_data) <= prev_sweep_now
              /\ Timestamp(tasks[k].thread_data) + NoResponseTimeout >= prev_sweep_now
              /\ Timestamp(tasks[k].thread_data) + NoResponseTimeout < review_now

C10_Witness == review_pc = "gather" /\ quiet_sweep /\ tasks # EmptyDict

\* C3: when two writers have each returned from create_link, for different
\* notification ids on the same file, and no create_link is running, the file holds
\* both links.
C3_NoLostUpdate ==
    (\A w \in Writers : writer_pc[w] = "idle") =>
        \A f \in finished : f[2] \in DOMAIN link_file

\* The latest call was handle_message.
Handled == last_call.op = "handle_message"

\* The event carries a mention marker or comes from an automated sender.
MentionOrBot(e) == Truthy(e.bot_id) \/ Contains("<@", TextOrEmpty(e))

\* Every watch of the registry is a watch the call found, unchanged.
OnlyOldWatches ==
    /\ DOMAIN watched_threads \subseteq DOMAIN last_call.registry
    /\ \A j \in DOMAIN watched_threads : watched_threads[j] = last_call.registry[j]

\* C11: handle_message of a reply event in a monitored channel, with no mention and
\* no bot_id, whose user is not the author of the watch of its thread, removes that
\* watch and no other; a reply event never adds a watch, whether its thread is
\* watched or not.
C11_ReplyRemovesOnlyItsWatch ==
    Handled =>
        LET e == last_call.event
            reg == last_call.registry
            k == ThreadKey(e.channel, e.thread_ts)
        IN  (e.channel \in DOMAIN monitored_channels /\ Truthy(e.thread_ts) /\ ~MentionOrBot(e))
            => /\ OnlyOldWatches
               /\ IF k \in DOMAIN reg /\ e.user # reg[k].user_id
                  THEN DOMAIN watched_threads = DOMAIN reg \ {k}
                  ELSE DOMAIN watched_threads = DOMAIN reg

\* A reply of another user removed the watch of its thread and left another watch.
C11_Witness ==
    /\ Handled
    /\ Truthy(last_call.event.thread_ts)
    /\ ThreadKey(last_call.event.channel, last_call.event.thread_ts) \in DOMAIN last_call.registry
    /\ ThreadKey(last_call.event.channel, last_call.event.thread_ts) \notin DOMAIN watched_threads
    /\ watched_threads # EmptyDict

\* C12: handle_message of a reply event whose user is the author of the watch of its
\* thread leaves the registry as it found it, the timestamp of the watch included.
C12_SelfReplyChangesNothing ==
    Handled =>
        LET e == last_call.event
            reg == last_call.registry
            k == ThreadKey(e.channel, e.thread_ts)
        IN  (Truthy(e.thread_ts) /\ k \in DOMAIN reg /\ e.user = reg[k].user_id)
            => watched_threads = reg

\* The author replied, without a mention, in a thread watched since an earlier clock
\* reading.
C12_Witness ==
    /\ Handled
    /\ Truthy(last_call.event.thread_ts)
    /\ ~MentionOrBot(last_call.event)
    /\ LET k == ThreadKey(last_call.event.channel, last_call.event.thread_ts) IN
          /\ k \in DOMAIN last_call.registry
          /\ last_call.event.user = last_call.registry[k].user_id
          /\ last_call.registry[k].timestamp < last_call.at

\* A top-level message event handle_message makes a watch of.
QualifyingTopLevel(e) ==
    /\ e.channel \in DOMAIN monitored_channels
    /\ ~MentionOrBot(e)
    /\ ~Truthy(e.thread_ts)
    /\ Truthy(e.ts) /\ Truthy(e.user) /\ Truthy(e.text)

\* C13: after handle_message of a qualifying top-level message the registry holds,
\* at the key of (channel, ts), the watch of this call: its author, its text and the
\* clock reading of the call, whatever watch the key held before; the other watches
\* are unchanged; and handling the same event again at the same clock reading
\* gives the same registry.
C13_LastCallSurvives ==
    Handled =>
        LET e == last_call.event
            reg == last_call.registry
            k == ThreadKey(e.channel, e.ts)
        IN  QualifyingTopLevel(e)
            => /\ DOMAIN watched_threads = DOMAIN reg \cup {k}
               /\ watched_threads[k] =
                     [channel_id |-> e.channel, thread_ts |-> e.ts, user_id |-> e.user,
                      text |-> e.text, timestamp |-> last_call.at]
               /\ \A j \in DOMAIN reg \ {k} : watched_threads[j] = reg[j]
               /\ HandledRegistry(watched_threads, e, last_call.at) = watched_threads

\* The key held a watch of another author, another text and an earlier clock reading.
C13_Witness ==
    /\ Handled
    /\ QualifyingTopLevel(last_call.event)
    /\ LET k == ThreadKey(last_call.event.channel, last_call.event.ts) IN
          /\ k \in DOMAIN last_call.registry
          /\ last_call.registry[k].user_id # last_call.event.user
          /\ last_call.registry[k].timestamp < last_call.at

\* C14: handle_message of an event whose channel is not a monitored channel leaves
\* the registry as it found it.
C14_UnmonitoredChannelChangesNothing ==
    Handled =>
        (last_call.event.channel \notin DOMAIN monitored_channels
            => watched_threads = last_call.registry)

\* A complete top-level message of another channel was handled.
C14_Witness ==
    /\ Handled
    /\ last_call.event.channel = "C9"
    /\ ~Truthy(last_call.event.thread_ts)
    /\ last_call.registry # EmptyDict

\* C15: handle_message of an event with a mention marker or a bot_id leaves the
\* registry as it found it: a top-level message makes no watch, a reply resolves none.
C15_MentionOrBotChangesNothing ==
    Handled => (MentionOrBot(last_call.event) => watched_threads = last_call.registry)

\* A reply with a mention, of another user, in a watched thread.
C15_Witness ==
    /\ Handled
    /\ Truthy(last_call.event.thread_ts)
    /\ Contains("<@", TextOrEmpty(last_call.event))
    /\ LET k == ThreadKey(last_call.event.channel, last_call.event.thread_ts) IN
          /\ k \in DOMAIN watched_threads
          /\ watched_threads[k].user_id # last_call.event.user

\* C16: handle_message of a top-level event with channel, ts, user or text absent
\* or empty returns and leaves the registry as it found it: no watch is made.
C16_IncompleteEventMakesNoWatch ==
    Handled =>
        LET e == last_call.event IN
        (/\ ~Truthy(e.thread_ts)
         /\ (~Truthy(e.channel) \/ ~Truthy(e.ts) \/ ~Truthy(e.user) \/ ~Truthy(e.text)))
        => watched_threads = last_call.registry

\* A top-level message of a monitored channel without text was handled.
C16_Witness ==
    /\ Handled
    /\ last_call.event.channel \in DOMAIN monitored_channels
    /\ ~Truthy(last_call.event.thread_ts)
    /\ ~Truthy(last_call.event.bot_id)
    /\ last_call.event.text = None
    /\ Truthy(last_call.event.user) /\ Truthy(last_call.event.ts)

\* C17: get_link(X) returns the channel and thread of the latest create_link(X, C, T)
\* that returned, on the same store and on a store constructed later on the same
\* path; the link is in the file when create_link returns.
C17_LinkReadBackAfterRestart ==
    /\ last_call.op = "__init__" =>
          \A n \in DOMAIN last_call.created : n \in DOMAIN link_file
    /\ last_call.op = "get_link" =>
          (last_call.notification_ts \in DOMAIN last_call.created
              => /\ last_call.notification_ts \in DOMAIN last_call.file
                 /\ last_call.result = last_call.created[last_call.notification_ts])
    /\ last_call.op = "create_link" =>
          /\ last_call.notification_ts \in DOMAIN link_file
          /\ link_file[last_call.notification_ts] =
                 last_call.created[last_call.notification_ts]

\* A link was created, a new store was constructed on the file, and the link was read.
C17_Witness ==
    /\ last_call.op = "get_link"
    /\ last_call.reopened
    /\ last_call.notification_ts \in DOMAIN last_call.created

\* C18: get_link of a notification id the file holds no link for returns None and
\* leaves the file as it was.
C18_MissReturnsNone ==
    (last_call.op = "get_link" /\ last_call.notification_ts \notin DOMAIN last_call.file)
        => /\ last_call.result = None
           /\ link_file = last_call.file

\* A miss on a file that holds another link.
C18_Witness ==
    /\ last_call.op = "get_link"
    /\ last_call.notification_ts \notin DOMAIN last_call.file
    /\ last_call.file # EmptyDict

\* C19: no step changes or removes the link of a notification id once the file
\* holds one, a create_link of the same notification id included.
C19_LinkNeverMutated ==
    [][\A n \in DOMAIN link_file :
          n \in DOMAIN link_file' /\ link_file'[n] = link_file[n]]_vars

\* The output is the answer yes the prompt asks for, in any letter case.
IsYesAnswer(response) == Lower(response) = "yes"

\* C20: a coroutine whose classifier output is not a yes answer (empty, a no, or any
\* other text) is finished and skipped; only a yes answer lets it go on to respond.
C20_OnlyYesAnswerIsAnswerable ==
    \A k \in DOMAIN tasks :
        (tasks[k].classifier_response # None /\ ~IsYesAnswer(tasks[k].classifier_response))
            => (tasks[k].pc = "done" /\ tasks[k].outcome = "skipped")

\* C21: get_or_create_session of a key that has a session returns the stored id and
\* changes nothing; of a key that has none, it stores the id it returns; the sessions
\* of the other keys are as they were. So calls for one key return one id until the
\* key is purged.
C21_StoredSessionIsReturned ==
    last_call.op = "get_or_create_session" =>
        /\ last_call.key \in DOMAIN sessions
        /\ sessions[last_call.key] = last_call.result
        /\ last_call.key \in DOMAIN last_call.sessions =>
              /\ last_call.result = last_call.sessions[last_call.key]
              /\ sessions = last_call.sessions
        /\ \A j \in DOMAIN last_call.sessions : j \in DOMAIN sessions
        /\ \A j \in DOMAIN sessions \ {last_call.key} :
              j \in DOMAIN last_call.sessions /\ sessions[j] = last_call.sessions[j]

\* The key had a session made in an earlier second; a new id would have differed.
C21_Witness ==
    /\ last_call.op = "get_or_create_session"
    /\ last_call.key \in DOMAIN last_call.sessions
    /\ last_call.sessions[last_call.key] # SessionId(last_call.at)

\* C22: the id get_or_create_session makes for a key that had none differs from the
\* id stored for every other key.
C22_NewSessionIdIsFresh ==
    (last_call.op = "get_or_create_session" /\ last_call.key \notin DOMAIN last_call.sessions)
        => \A j \in DOMAIN last_call.sessions : last_call.sessions[j] # last_call.result

\* C23: purge_old(cutoff) at clock reading t removes the session and the last_used
\* record of every key with t - last_used > cutoff and keeps those of every other key
\* as they were.
C23_PurgeRemovesExactlyTheIdle ==
    last_call.op = "purge_old" =>
        /\ \A k \in DOMAIN last_call.last_used :
              IF last_call.at - last_call.last_used[k] > SessionCutoff
              THEN k \notin DOMAIN sessions /\ k \notin DOMAIN last_used
              ELSE /\ k \in DOMAIN last_used
                   /\ last_used[k] = last_call.last_used[k]
                   /\ k \in DOMAIN last_call.sessions =>
                         (k \in DOMAIN sessions /\ sessions[k] = last_call.sessions[k])
        /\ DOMAIN sessions \subseteq DOMAIN last_call.sessions
        /\ DOMAIN last_used \subseteq DOMAIN last_call.last_used

\* One session was purged, another, idle for exactly the cutoff, was kept.
C23_Witness ==
    /\ last_call.op = "purge_old"
    /\ \E k \in DOMAIN last_call.sessions : k \notin DOMAIN sessions
    /\ \E k \in DOMAIN sessions :
          /\ k \in DOMAIN last_used
          /\ last_call.at - last_used[k] = SessionCutoff

\* C24: in every reachable state, every watch of the registry is of a thread in which
\* no reply of another user has been handled since the watch was made, and its
\* timestamp + timeout is not in the past.
C24_WatchedOnlyWhileUnrepliedAndUnexpired ==
    \A k \in DOMAIN watched_threads :
        /\ HistGet(reply_hist, k) = "none"
        /\ Timestamp(watched_threads[k]) + NoResponseTimeout >= now

\* C24, amended: in every reachable state, every watch of the registry is of a thread
\* in which no reply of another user without a mention and from no automated sender has
\* been handled since the watch was made, and its timestamp + timeout was not in the
\* past at the clock reading of the latest sweep.
C24_WatchedOnlyWhileUnresolvedAndUnswept ==
    \A k \in DOMAIN watched_threads :
        /\ HistGet(reply_hist, k) \notin {"resolved", "spared"}
        /\ Timestamp(watched_threads[k]) + NoResponseTimeout >= last_sweep_now

\* A sweep has run, and the registry holds a watch whose timeout has run out since
\* and in whose thread another user's reply with a mention or a bot_id was handled.
C24_Witness ==
    /\ last_sweep_now >= 0
    /\ \E k \in DOMAIN watched_threads :
          /\ HistGet(reply_hist, k) = "ignored"
          /\ Timestamp(watched_threads[k]) + NoResponseTimeout < now

\* C25: a coroutine of _process_single_thread that is about to post the notification
\* has posted its response to the origin thread, one that has the ts of a notification
\* has posted the response before it, and every link of the file names a top-level
\* message posted to the notification channel of the origin channel and an origin
\* thread that holds a response posted before that message.
C25_LinkFollowsNotificationFollowsResponse ==
    /\ \A k \in DOMAIN tasks :
          /\ tasks[k].pc = "notify" =>
                \E r \in PostedBy(k) :
                    /\ r.channel = tasks[k].thread_data.channel_id
                    /\ r.thread_ts = tasks[k].thread_data.thread_ts
          /\ tasks[k].notification_ts # NoTs =>
                \E r \in PostedBy(k) :
                    /\ r.channel = tasks[k].thread_data.channel_id
                    /\ r.thread_ts = tasks[k].thread_data.thread_ts
                    /\ r.ts < tasks[k].notification_ts
    /\ \A n \in DOMAIN link_file :
          /\ link_file[n].original_channel_id \in DOMAIN monitored_channels
          /\ \E m \in posted :
                /\ m.ts = n
                /\ m.thread_ts = None
                /\ m.channel = monitored_channels[link_file[n].original_channel_id]
          /\ \E r \in posted :
                /\ r.channel = link_file[n].original_channel_id
                /\ r.thread_ts = link_file[n].original_thread_ts
                /\ r.ts < n

\* A coroutine has posted its response and its notification and written the link.
C25_Witness ==
    \E k \in DOMAIN tasks :
        /\ tasks[k].outcome = "answered"
        /\ tasks[k].notification_ts \in DOMAIN link_file

\* C30: handle_message of a reply event in a monitored channel that has no user
\* leaves a watch of its thread in the registry, as it was.
C30_AuthorlessReplyKeepsWatch ==
    Handled =>
        LET e == last_call.event
            reg == last_call.registry
            k == ThreadKey(e.channel, e.thread_ts)
        IN  (/\ e.channel \in DOMAIN monitored_channels
             /\ Truthy(e.thread_ts)
             /\ e.user = None
             /\ k \in DOMAIN reg)
            => (k \in DOMAIN watched_threads /\ watched_threads[k] = reg[k])

\* C26: while the review loop is not inside a sweep no coroutine of
\* _process_single_thread exists, and every coroutine in flight belongs to the sweep
\* in progress: it processes a watch that sweep took as expired at its clock reading.
\* So a sweep starts only when the coroutines of the sweep before it have finished.
C26_UnitsOfOneSweepOnly ==
    /\ review_pc # "gather" => tasks = EmptyDict
    /\ \A k \in DOMAIN tasks :
          /\ k \in DOMAIN registry_at_sweep
          /\ tasks[k].thread_data = registry_at_sweep[k]
          /\ IsExpired(tasks[k].thread_data, review_now)

\* A sweep is in progress with a coroutine not yet finished, and a message is there
\* that a coroutine of an earlier sweep posted.
C26_Witness ==
    /\ review_pc = "gather"
    /\ \E k \in DOMAIN tasks : tasks[k].pc # "done"
    /\ \E m \in posted : \A k \in DOMAIN tasks : m.ts \notin tasks[k].my_posts

\* C27: until stop is called the review loop is asleep or inside a sweep, whatever
\* exceptions the coroutines of _process_single_thread and review_watched_threads
\* have raised; while it sleeps a further sweep can start.
C27_LoopSurvivesFailures ==
    ~stop_called =>
        /\ review_pc \in {"idle", "gather"}
        /\ review_pc = "idle" => ENABLED Sweep

\* A sweep is in progress after review_watched_threads raised and after a coroutine of
\* an earlier sweep failed between its response and its notification.
C27_Witness ==
    /\ ~stop_called
    /\ review_pc = "gather"
    /\ review_raised
    /\ \E r \in posted :
          /\ r.thread_ts # None
          /\ ThreadKey(r.channel, r.thread_ts) \notin DOMAIN tasks
    /\ \A m \in posted : m.thread_ts # None

\* The state after stop holds no coroutine, both loops have ended, the link file is
\* as stop found it, and every link has both its fields.
StoppedCleanly ==
    /\ review_pc = "cancelled"
    /\ cleanup_pc = "cancelled"
    /\ tasks = EmptyDict
    /\ link_file = last_call.link_file
    /\ \A n \in DOMAIN link_file :
          DOMAIN link_file[n] = {"original_channel_id", "original_thread_ts"}

\* Every watch of the registry was kept by the sweep or made at or after its clock
\* reading.
KeptOrAddedSince ==
    \A k \in DOMAIN watched_threads :
        \/ k \in DOMAIN threads_to_keep /\ watched_threads[k] = threads_to_keep[k]
        \/ Timestamp(watched_threads[k]) >= review_now

C29_EveryWatchLeaves ==
    \A k \in ThreadKeys :
        (k \in DOMAIN watched_threads) ~> (k \notin DOMAIN watched_threads \/ stop_called)

\* A watch made by handle_message has been taken by a sweep, no reply having removed it.
C29_Witness ==
    /\ ~stop_called
    /\ \E k \in DOMAIN tasks :
          /\ Timestamp(tasks[k].thread_data) >= 0
          /\ k \notin DOMAIN watched_threads
          /\ HistGet(reply_hist, k) = "none"

\* C32: in every reachable state each key of sessions has a last_used record and each
\* last_used record belongs to a stored session, so that purge_old evicts a session
\* that was made and never touched.
C32_EverySessionHasLastUsed ==
    /\ DOMAIN sessions \subseteq DOMAIN last_used
    /\ DOMAIN last_used \subseteq DOMAIN sessions

\* C37: in every reachable state each watch of the registry has a channel_id that is a
\* key of monitored_channels, has a non-empty channel_id, thread_ts, user_id and text,
\* and is stored under the key built from its own channel_id and thread_ts.
C37_WatchesAreWellFormed ==
    \A k \in DOMAIN watched_threads :
        LET w == watched_threads[k] IN
        /\ w.channel_id \in DOMAIN monitored_channels
        /\ Truthy(w.channel_id) /\ Truthy(w.thread_ts) /\ Truthy(w.user_id) /\ Truthy(w.text)
        /\ k = ThreadKey(w.channel_id, w.thread_ts)

\* handle_message has just returned for a top-level event of a monitored channel that
\* lacks a field or is of an unmonitored channel, and the registry holds watches.
C37_Witness ==
    /\ Handled
    /\ ~Truthy(last_call.event.thread_ts)
    /\ ~MentionOrBot(last_call.event)
    /\ ~QualifyingTopLevel(last_call.event)
    /\ Cardinality(DOMAIN watched_threads) = 2

\* The (channel_id, message id) pair an event is about: its own for a top-level
\* message, that of its thread for a reply.
EventPair(e) == <<e.channel, IF Truthy(e.thread_ts) THEN e.thread_ts ELSE e.ts>>

\* The (channel_id, message id) pair of a watch.
WatchPair(w) == <<w.channel_id, w.thread_ts>>

\* C38: different (channel_id, message id) pairs have different registry keys, and
\* handle_message of an event, an add or a reply, leaves every watch of another pair
\* in the registry as it was.
C38_KeyIsUniquePerPair ==
    /\ \A e1 \in HandledEvents : \A e2 \in HandledEvents :
          EventPair(e1) # EventPair(e2) =>
              ThreadKey(EventPair(e1)[1], EventPair(e1)[2]) #
              ThreadKey(EventPair(e2)[1], EventPair(e2)[2])
    /\ Handled =>
          \A j \in DOMAIN last_call.registry :
              WatchPair(last_call.registry[j]) # EventPair(last_call.event) =>
                  /\ j \in DOMAIN watched_threads
                  /\ watched_threads[j] = last_call.registry[j]

\* A message was added, or a reply removed a watch, while the registry held the watch
\* of the message with the same id in another channel, which is still there.
C38_Witness ==
    /\ Handled
    /\ DOMAIN watched_threads # DOMAIN last_call.registry
    /\ \E j \in DOMAIN last_call.registry :
          /\ last_call.registry[j].channel_id # last_call.event.channel
          /\ last_call.registry[j].thread_ts = EventPair(last_call.event)[2]
          /\ j \in DOMAIN watched_threads

\* C31: a link that a create_link has persisted and returned from is returned by
\* get_link ever after: whenever no writer is between truncating and writing the file,
\* get_link finds every id a finished create_link linked.
C31_LinkedIdsNeverShrink ==
    (\A w \in Writers : writer_pc[w] # "write") =>
        \A f \in finished :
            /\ f[2] \in DOMAIN LoadLinks(link_file)
            /\ GetLink(link_file, f[2]) = LoadLinks(link_file)[f[2]]

\* C33: a call of AgentEngineClient.get_or_create_session for a (channel_id, user_id)
\* for which an earlier call has returned an id returns an id returned before, and
\* leaves the count of engine sessions and the session list as it found them, for
\* every channel_id, None included.
C33_SecondCallReturnsStoredSession ==
    (last_call.op = "engine_get_or_create_session" /\ last_call.prior # {}) =>
        /\ last_call.result \in last_call.prior
        /\ engine_count = last_call.engine
        /\ session_file = last_call.file

\* C34: the session list holds at most one record per (channel_id, user_id) in every
\* reachable state.
C34_OneRecordPerKey ==
    \A i \in 1..Len(session_file) : \A j \in 1..Len(session_file) :
        i # j => <<session_file[i].channel_id, session_file[i].user_id>> #
                 <<session_file[j].channel_id, session_file[j].user_id>>

\* C35: for each key of the cache, at most one handler run has been let through since
\* the key was set; every key of the cache has let one through; and a delivery with
\* a key is skipped exactly when its key is in the cache at its is_duplicate.
C35_OneRunPerCachedKey ==
    /\ \A k \in DOMAIN admitted : admitted[k] <= 1
    /\ \A i \in 1..Len(dedup_cache) :
          dedup_cache[i] \in DOMAIN admitted /\ admitted[dedup_cache[i]] = 1
    /\ Len(dedup_cache) <= MaxEvents
    /\ (last_call.op = "deduplicate_event" /\ Truthy(last_call.key)) =>
          (last_call.result = "skip" <=> InCache(last_call.cache, last_call.key))

\* Two deliveries of one event were in the wrapper together: the handler runs for
\* one, the other was skipped, and the key is in the cache.
C35_Witness ==
    \E d1 \in Deliveries : \E d2 \in Deliveries :
        /\ delivery[d1].pc = "handler"
        /\ delivery[d2].outcome = "skipped"
        /\ delivery[d1].arg = delivery[d2].arg
        /\ InCache(dedup_cache, delivery[d1].key)
        /\ last_call.op = "deduplicate_event"
        /\ last_call.result = "skip"

\* C36: the key of an event dict is event_id when it has one, else client_msg_id, else
\* the thread_ts of assistant_thread, else event_ts; with none of them, or with an
\* argument that is no dict, the handler runs and the cache stays as it was.
C36_KeyByPriority ==
    last_call.op = "deduplicate_event" =>
        LET e == last_call.arg
            hasEid == e.is_dict /\ e.event_id # None /\ e.event_id # ""
            hasCid == e.is_dict /\ e.client_msg_id # None /\ e.client_msg_id # ""
            hasTid == /\ e.is_dict
                      /\ Len(e.assistant_thread) = 1
                      /\ e.assistant_thread[1] # None /\ e.assistant_thread[1] # ""
            hasEts == e.is_dict /\ e.event_ts # None /\ e.event_ts # ""
        IN  /\ hasEid => last_call.key = "event_id:" \o e.event_id
            /\ (~hasEid /\ hasCid) => last_call.key = "client_msg_id:" \o e.client_msg_id
            /\ (~hasEid /\ ~hasCid /\ hasTid) =>
                  last_call.key = "thread_id:" \o e.assistant_thread[1]
            /\ (~hasEid /\ ~hasCid /\ ~hasTid /\ hasEts) =>
                  last_call.key = "event_ts:" \o e.event_ts
            /\ (~hasEid /\ ~hasCid /\ ~hasTid /\ ~hasEts) =>
                  /\ last_call.key = None
                  /\ last_call.result = "run"
                  /\ dedup_cache = last_call.cache

\* An event with client_msg_id, thread_ts and event_ts and no event_id was decided
\* under its client_msg_id, while the cache holds the event_id of another.
C36_Witness ==
    /\ last_call.op = "deduplicate_event"
    /\ last_call.arg.is_dict
    /\ ~Truthy(last_call.arg.event_id)
    /\ Truthy(last_call.arg.client_msg_id)
    /\ Truthy(last_call.arg.event_ts)
    /\ last_call.key = "client_msg_id:M1"
    /\ InCache(dedup_cache, "event_id:E1")

====
